---- MODULE Spec2Model ----
(***************************************************************************)
(* Lesson pipeline of asaan-learn-backend:                                 *)
(*   - the playback director, src/asaan-learn-backend/src/ws/lessons.ts    *)
(*     (mountLessonWS: one streaming session per WebSocket connection);    *)
(*   - the script assembler, src/asaan-learn-backend/src/routes/lessons.ts *)
(*     (POST /lessons/start: validate, enrich, sanitize, persist, TTS).    *)
(*                                                                         *)
(* Node runs one callback at a time.  A session's code between two awaits  *)
(* is one turn; the turn is split here into one action per ws.send, and no *)
(* other callback (message handler, timer, other session) runs until the   *)
(* turn has reached its next await (JsIdle).  What the client does on the  *)
(* network (ClientSend) is not a callback and may happen at any moment.    *)
(*                                                                         *)
(* A nullable value is <<>> (null / undefined) or <<v>>.                   *)
(***************************************************************************)
EXTENDS Integers, Sequences, FiniteSets, TLC

Null == <<>>
Some(v) == <<v>>
IsNull(v) == v = <<>>
Val(v) == v[1]

(***************************************************************************)
(* Bounds of the model.                                                    *)
(***************************************************************************)
\* control messages a client may have in flight towards its session
MaxInbox == 2

Sessions == {"s1", "s2"}

(***************************************************************************)
(* Directives, chunks, scripts (src/asaan-learn-backend/src/types.ts).     *)
(***************************************************************************)
\* A directive as the flat record of the wire and of the stored script:
\* every field of every variant, null where it does not apply.  A text (a
\* title, a narration, a line) is the sequence of its words.
Flat(type, x, y, text, speed, delay, num, den, w, h) ==
  [type |-> type, x |-> x, y |-> y, text |-> text, speed |-> speed,
   delayMsPerUnit |-> delay, numerator |-> num, denominator |-> den, w |-> w, h |-> h]

WriteText(text, x, y) ==
  Flat("WRITE_TEXT", x, y, text, Some("word"), Some(350), Null, Null, Null, Null)

FractionBar(n, d, x, y) ==
  Flat("DRAW_FRACTION_BAR", x, y, Null, Null, Null, n, d, Null, Null)

Erase(x, y, w, h) ==
  Flat("ERASE", x, y, Null, Null, Null, Null, Null, w, h)

Chunk(id, title, narration, whiteboard, tts) ==
  [id |-> id, title |-> title, romanUrdu |-> narration,
   whiteboard |-> whiteboard, ttsAudioUrl |-> tts]

PracticeItem(q, whiteboard) ==
  [q |-> q, options |-> <<"a", "b", "c", "d">>, answer |-> "a",
   solutionRomanUrdu |-> <<"hal">>, whiteboard |-> whiteboard]

FullScript(title, grade, chunks, practice) ==
  [chapterTitle |-> title, grade |-> grade, chunks |-> chunks, practice20 |-> practice]

Script(title, grade, chunks) == FullScript(title, grade, chunks, <<>>)

NoScript == Script("", 0, <<>>)

\* Two chunks, the first with two directives and an audio reference, the
\* second with one directive and none.
ScriptTwoChunks ==
  Script("Fractions", 4,
    << Chunk("c1", <<"Half">>, <<"adha">>,
             << WriteText(Some(<<"Half">>), Some(40), Some(60)),
                FractionBar(Some(1), Some(2), Some(40), Some(108)) >>,
             Some("c1.mp3")),
       Chunk("c2", <<"Quarter">>, <<"chauthai">>,
             << WriteText(Some(<<"Quarter">>), Some(40), Some(108)) >>, Null) >>)

\* One chunk without any directive.
ScriptBareChunk ==
  Script("Bare", 4, << Chunk("b1", <<"Bare">>, <<>>, <<>>, Null) >>)

\* No chunk at all.
ScriptNoChunks == Script("Empty", 4, <<>>)

\* A row of the lessons table, as step 4 of POST /lessons/start inserts it.
Row(student, chapter, subtopic, title, script) ==
  [student_id |-> student, chapter_id |-> chapter, subtopic_id |-> subtopic,
   title |-> title, status |-> "live", script |-> script]

\* The lessons table as the model starts with it: rows 1, 2 and 4 hold a
\* script, row 3 has a null script column, no other id has a row; row 2 is
\* the lesson of subtopic 8.
PlaybackLessons ==
  (1 :> Row("stu", 1, Null, <<"Fractions">>, Some(ScriptTwoChunks))) @@
  (2 :> Row("stu", 1, Some(8), <<"Bare">>, Some(ScriptBareChunk))) @@
  (3 :> Row("stu", 1, Null, <<"Draft">>, Null)) @@
  (4 :> Row("stu", 1, Null, <<"Empty">>, Some(ScriptNoChunks)))

(***************************************************************************)
(* Runtime validation (LessonScriptSchema and the schemas it is built of). *)
(***************************************************************************)
DirectiveTypes == {"WRITE_TEXT", "DRAW_FRACTION_BAR", "ERASE"}

\* WhiteboardDirectiveSchema: the enum of type, then the superRefine rules.
ValidDirectiveLax(d) == d.type \in DirectiveTypes

\* fullCanvas with || for &&: any null bound makes an ERASE full-canvas.
ValidDirectiveLooseErase(d) ==
  /\ d.type \in DirectiveTypes
  /\ IsNull(d.speed) \/ Val(d.speed) \in {"word", "char"}
  /\ d.type = "WRITE_TEXT" => ~IsNull(d.text)
  /\ d.type = "DRAW_FRACTION_BAR" => (~IsNull(d.numerator) /\ ~IsNull(d.denominator))
  /\ d.type = "ERASE" =>
       LET bounded == ~IsNull(d.x) /\ ~IsNull(d.y) /\ ~IsNull(d.w) /\ ~IsNull(d.h)
           fullCanvas == IsNull(d.x) \/ IsNull(d.y) \/ IsNull(d.w) \/ IsNull(d.h)
       IN bounded \/ fullCanvas

ValidDirective(d) ==
  /\ d.type \in DirectiveTypes
  /\ IsNull(d.speed) \/ Val(d.speed) \in {"word", "char"}
  /\ d.type = "WRITE_TEXT" => ~IsNull(d.text)
  /\ d.type = "DRAW_FRACTION_BAR" => (~IsNull(d.numerator) /\ ~IsNull(d.denominator))
  /\ d.type = "ERASE" =>
       LET bounded == ~IsNull(d.x) /\ ~IsNull(d.y) /\ ~IsNull(d.w) /\ ~IsNull(d.h)
           fullCanvas == IsNull(d.x) /\ IsNull(d.y) /\ IsNull(d.w) /\ IsNull(d.h)
       IN bounded \/ fullCanvas

ValidWhiteboard(wb) == \A i \in 1..Len(wb) : ValidDirective(wb[i])

\* LessonChunkSchema
ValidChunk(c) == ValidWhiteboard(c.whiteboard)

\* PracticeItemSchema: whiteboard is nullable
ValidPractice(p) == IsNull(p.whiteboard) \/ ValidWhiteboard(Val(p.whiteboard))

\* LessonScriptSchema.parse(raw) does not throw.  raw is what JSON.parse
\* gave, chunks and practice20 already defaulted to [] when no array.
ValidScript(raw) ==
  /\ ~IsNull(raw.chapterTitle)
  /\ ~IsNull(raw.grade)
  /\ \A i \in 1..Len(raw.chunks) : ValidChunk(raw.chunks[i])
  /\ \A i \in 1..Len(raw.practice20) : ValidPractice(raw.practice20[i])

\* The parsed script.
Parsed(raw) ==
  FullScript(Val(raw.chapterTitle), Val(raw.grade), raw.chunks, raw.practice20)

(***************************************************************************)
(* Enrichment helpers.                                                     *)
(***************************************************************************)
\* wordCount: the words of a text are the elements of its sequence.
wordCount(s) == Len(s)

\* The narration length below which maybeExpandNarration asks for a rewrite.
WordFloor == 90
\* maxWordsPerLine as ensureRichWhiteboardForChunk passes it.
MaxWordsPerLine == 14
\* slice(0, 4)
MaxLines == 4

\* /[.!?)]$/ on the words the model's narrations use.
EndsSentence(tok) == tok \in {"hai.", "pizza.", "tip!"}

\* The fraction a word holds, /(\d+)\s*\/\s*(\d+)/, on those words.
FractionOf(tok) ==
  CASE tok = "3/4" -> Some(<<3, 4>>)
    [] tok = "1/0" -> Some(<<1, 0>>)
    [] OTHER -> Null

\* narr.match(...): the first fraction of the narration.
FirstFraction(narr) ==
  LET at == {i \in 1..Len(narr) : ~IsNull(FractionOf(narr[i]))}
  IN IF at = {} THEN Null
     ELSE FractionOf(narr[CHOOSE i \in at : \A j \in at : i <= j])

\* `${a}/${b}` for the fractions above.
FractionWord(f) == IF f = <<3, 4>> THEN "3/4" ELSE "other"

\* The token at which the line that opens at token from is pushed: the first
\* that fills the line or ends a sentence; the last token when there is none
\* (the push after the loop).
LineEnd(tokens, from, max) ==
  LET stops == {i \in from..Len(tokens) :
                  i - from + 1 >= max \/ EndsSentence(tokens[i])}
  IN IF stops = {} THEN Len(tokens) ELSE CHOOSE i \in stops : \A j \in stops : i <= j

\* splitSentencesToLines: the loop over the tokens, from one push to the
\* next; acc is the tokens from..LineEnd.
RECURSIVE SplitLoop(_, _, _, _)
SplitLoop(tokens, from, lines, max) ==
  IF from > Len(tokens) THEN lines
  ELSE SplitLoop(tokens, LineEnd(tokens, from, max) + 1,
                 Append(lines, SubSeq(tokens, from, LineEnd(tokens, from, max))), max)

\* The tokens filtered as wordCount filters them: no token of an empty
\* narration.
splitSentencesNoEmptyToken(narr, max) == SplitLoop(narr, 1, <<>>, max)

\* "".split(" ") is [""]: an empty narration has the one token "".
splitSentencesToLines(narr, max) ==
  SplitLoop(IF narr = <<>> THEN <<"">> ELSE narr, 1, <<>>, max)

\* deriveExampleLine
deriveExampleLine(narr) ==
  LET m == FirstFraction(narr)
  IN IF ~IsNull(m) /\ Val(m)[2] # 0
       THEN <<"Example:", FractionWord(Val(m)), "matlab", "parts", "out", "of">>
       ELSE <<"Example:", "3/4", "+", "1/4", "=", "1">>

Max(a, b) == IF a >= b THEN a ELSE b

\* DEFAULTS
DefaultX == 40
DefaultY == 60
DefaultRow == 48
DefaultDelay == 350
\* the vertical step of one text line, and the offset of a fraction bar
LineStep == 40
BarOffset == 8
\* the gap of the practice items below the chunks
PracticeGap == 24

FreshText(text) ==
  Flat("WRITE_TEXT", Null, Null, Some(text), Some("word"), Some(DefaultDelay),
       Null, Null, Null, Null)

IsWriteText(d) == d.type = "WRITE_TEXT" /\ ~IsNull(d.text)

\* ensureRichWhiteboardForChunk with writeTexts.length <= 3.
ensureRichUpToThree(chunk) ==
  LET wbs == chunk.whiteboard
      writeTexts == SelectSeq(wbs, IsWriteText)
      lines == SubSeq(splitSentencesToLines(chunk.romanUrdu, MaxWordsPerLine), 1,
                      IF Len(splitSentencesToLines(chunk.romanUrdu, MaxWordsPerLine)) < MaxLines
                        THEN Len(splitSentencesToLines(chunk.romanUrdu, MaxWordsPerLine))
                        ELSE MaxLines)
      frac == FirstFraction(chunk.romanUrdu)
      fresh == <<FreshText(chunk.title)>>
                 \o [i \in 1..Len(lines) |-> FreshText(lines[i])]
                 \o <<FreshText(deriveExampleLine(chunk.romanUrdu))>>
                 \o (IF ~IsNull(frac)
                       THEN <<Flat("DRAW_FRACTION_BAR", Null, Null, Null, Null, Null,
                                   Some(Val(frac)[1]), Some(Max(1, Val(frac)[2])),
                                   Null, Null)>>
                       ELSE <<>>)
  IN IF Len(writeTexts) <= 3 THEN [chunk EXCEPT !.whiteboard = fresh] ELSE chunk

\* ensureRichWhiteboardForChunk: a chunk with fewer than three WRITE_TEXT
\* directives gets a fresh whiteboard (title, up to four narration lines,
\* an example line, a fraction bar when the narration holds a fraction).
ensureRichWhiteboardForChunk(chunk) ==
  LET wbs == chunk.whiteboard
      writeTexts == SelectSeq(wbs, IsWriteText)
      lines == SubSeq(splitSentencesToLines(chunk.romanUrdu, MaxWordsPerLine), 1,
                      IF Len(splitSentencesToLines(chunk.romanUrdu, MaxWordsPerLine)) < MaxLines
                        THEN Len(splitSentencesToLines(chunk.romanUrdu, MaxWordsPerLine))
                        ELSE MaxLines)
      frac == FirstFraction(chunk.romanUrdu)
      fresh == <<FreshText(chunk.title)>>
                 \o [i \in 1..Len(lines) |-> FreshText(lines[i])]
                 \o <<FreshText(deriveExampleLine(chunk.romanUrdu))>>
                 \o (IF ~IsNull(frac)
                       THEN <<Flat("DRAW_FRACTION_BAR", Null, Null, Null, Null, Null,
                                   Some(Val(frac)[1]), Some(Max(1, Val(frac)[2])),
                                   Null, Null)>>
                       ELSE <<>>)
  IN IF Len(writeTexts) < 3 THEN [chunk EXCEPT !.whiteboard = fresh] ELSE chunk

(***************************************************************************)
(* Sanitization.                                                           *)
(***************************************************************************)
OrElse(v, d) == IF IsNull(v) THEN Some(d) ELSE v

\* The whiteboard.map of one chunk without writeIndex++.
RECURSIVE SanitizeWhiteboardNoCount(_, _, _)
SanitizeWhiteboardNoCount(wb, chunkY, writeIndex) ==
  IF wb = <<>> THEN <<>>
  ELSE LET d == Head(wb)
       IN IF d.type = "WRITE_TEXT"
            THEN <<[d EXCEPT !.x = OrElse(d.x, DefaultX),
                             !.y = OrElse(d.y, chunkY + writeIndex * LineStep),
                             !.text = OrElse(d.text, <<>>),
                             !.speed = OrElse(d.speed, "word"),
                             !.delayMsPerUnit = OrElse(d.delayMsPerUnit, DefaultDelay)]>>
                 \o SanitizeWhiteboardNoCount(Tail(wb), chunkY, writeIndex)
          ELSE IF d.type = "DRAW_FRACTION_BAR"
            THEN <<[d EXCEPT !.x = OrElse(d.x, DefaultX),
                             !.y = OrElse(d.y, chunkY + writeIndex * LineStep + BarOffset),
                             !.numerator = OrElse(d.numerator, 1),
                             !.denominator = OrElse(d.denominator, 2)]>>
                 \o SanitizeWhiteboardNoCount(Tail(wb), chunkY, writeIndex)
          ELSE <<d>> \o SanitizeWhiteboardNoCount(Tail(wb), chunkY, writeIndex)

\* The chunk map with every bar lacking y put at the chunk's first line:
\* chunkY + 8, the counter left out of the bar's y.
RECURSIVE SanitizeWhiteboardBarAtTop(_, _, _)
SanitizeWhiteboardBarAtTop(wb, chunkY, writeIndex) ==
  IF wb = <<>> THEN <<>>
  ELSE LET d == Head(wb)
       IN IF d.type = "WRITE_TEXT"
            THEN <<[d EXCEPT !.x = OrElse(d.x, DefaultX),
                             !.y = OrElse(d.y, chunkY + writeIndex * LineStep),
                             !.text = OrElse(d.text, <<>>),
                             !.speed = OrElse(d.speed, "word"),
                             !.delayMsPerUnit = OrElse(d.delayMsPerUnit, DefaultDelay)]>>
                 \o SanitizeWhiteboardBarAtTop(Tail(wb), chunkY,
                                       IF IsNull(d.y) THEN writeIndex + 1 ELSE writeIndex)
          ELSE IF d.type = "DRAW_FRACTION_BAR"
            THEN <<[d EXCEPT !.x = OrElse(d.x, DefaultX),
                             !.y = OrElse(d.y, chunkY + BarOffset),
                             !.numerator = OrElse(d.numerator, 1),
                             !.denominator = OrElse(d.denominator, 2)]>>
                 \o SanitizeWhiteboardBarAtTop(Tail(wb), chunkY, writeIndex)
          ELSE <<d>> \o SanitizeWhiteboardBarAtTop(Tail(wb), chunkY, writeIndex)

\* The whiteboard.map of one chunk: writeIndex counts the WRITE_TEXT
\* directives that were given their y so far.
RECURSIVE SanitizeWhiteboard(_, _, _)
SanitizeWhiteboard(wb, chunkY, writeIndex) ==
  IF wb = <<>> THEN <<>>
  ELSE LET d == Head(wb)
       IN IF d.type = "WRITE_TEXT"
            THEN <<[d EXCEPT !.x = OrElse(d.x, DefaultX),
                             !.y = OrElse(d.y, chunkY + writeIndex * LineStep),
                             !.text = OrElse(d.text, <<>>),
                             !.speed = OrElse(d.speed, "word"),
                             !.delayMsPerUnit = OrElse(d.delayMsPerUnit, DefaultDelay)]>>
                 \o SanitizeWhiteboard(Tail(wb), chunkY,
                                       IF IsNull(d.y) THEN writeIndex + 1 ELSE writeIndex)
          ELSE IF d.type = "DRAW_FRACTION_BAR"
            THEN <<[d EXCEPT !.x = OrElse(d.x, DefaultX),
                             !.y = OrElse(d.y, chunkY + writeIndex * LineStep + BarOffset),
                             !.numerator = OrElse(d.numerator, 1),
                             !.denominator = OrElse(d.denominator, 2)]>>
                 \o SanitizeWhiteboard(Tail(wb), chunkY, writeIndex)
          ELSE <<d>> \o SanitizeWhiteboard(Tail(wb), chunkY, writeIndex)

\* The whiteboard.map of one practice item with the bar's offset outside
\* the default: (dd.y ?? practiceBaseY + i * 40) + 8.
SanitizePracticeShift(wb, baseY) ==
  [i \in 1..Len(wb) |->
     LET d == wb[i]
     IN IF d.type = "WRITE_TEXT"
          THEN [d EXCEPT !.x = OrElse(d.x, DefaultX),
                         !.y = OrElse(d.y, baseY + (i - 1) * LineStep),
                         !.text = OrElse(d.text, <<>>),
                         !.speed = OrElse(d.speed, "word"),
                         !.delayMsPerUnit = OrElse(d.delayMsPerUnit, DefaultDelay)]
        ELSE IF d.type = "DRAW_FRACTION_BAR"
          THEN [d EXCEPT !.x = OrElse(d.x, DefaultX),
                         !.y = Some(Val(OrElse(d.y, baseY + (i - 1) * LineStep)) + BarOffset),
                         !.numerator = OrElse(d.numerator, 1),
                         !.denominator = OrElse(d.denominator, 2)]
        ELSE d]

\* The whiteboard.map of one practice item: the y of a directive follows
\* from its index i (from 0) in the item.
SanitizePractice(wb, baseY) ==
  [i \in 1..Len(wb) |->
     LET d == wb[i]
     IN IF d.type = "WRITE_TEXT"
          THEN [d EXCEPT !.x = OrElse(d.x, DefaultX),
                         !.y = OrElse(d.y, baseY + (i - 1) * LineStep),
                         !.text = OrElse(d.text, <<>>),
                         !.speed = OrElse(d.speed, "word"),
                         !.delayMsPerUnit = OrElse(d.delayMsPerUnit, DefaultDelay)]
        ELSE IF d.type = "DRAW_FRACTION_BAR"
          THEN [d EXCEPT !.x = OrElse(d.x, DefaultX),
                         !.y = OrElse(d.y, baseY + (i - 1) * LineStep + BarOffset),
                         !.numerator = OrElse(d.numerator, 1),
                         !.denominator = OrElse(d.denominator, 2)]
        ELSE d]

\* sanitizeScript without the practice20 map.
sanitizeScriptChunksOnly(sc) ==
  [sc EXCEPT
     !.chunks = [idx \in 1..Len(sc.chunks) |->
                   [sc.chunks[idx] EXCEPT
                      !.whiteboard = SanitizeWhiteboard(sc.chunks[idx].whiteboard,
                                       DefaultY + (idx - 1) * DefaultRow, 0)]]]

sanitizeScript(sc) ==
  [sc EXCEPT
     !.chunks = [idx \in 1..Len(sc.chunks) |->
                   [sc.chunks[idx] EXCEPT
                      !.whiteboard = SanitizeWhiteboard(sc.chunks[idx].whiteboard,
                                       DefaultY + (idx - 1) * DefaultRow, 0)]],
     !.practice20 = [j \in 1..Len(sc.practice20) |->
                   [sc.practice20[j] EXCEPT
                      !.whiteboard =
                        IF IsNull(sc.practice20[j].whiteboard) THEN Null
                        ELSE Some(SanitizePractice(Val(sc.practice20[j].whiteboard),
                                    DefaultY + Len(sc.chunks) * DefaultRow + PracticeGap))]]]

(***************************************************************************)
(* The connection target: the last path segment of /ws/lessons/<segment>.  *)
(***************************************************************************)
Targets == {"1", "2", "3", "4", "5", "999", "0", "", "abc"}

\* Number(segment): NaN is Null.
Number(seg) ==
  CASE seg = "1" -> Some(1)
    [] seg = "2" -> Some(2)
    [] seg = "3" -> Some(3)
    [] seg = "4" -> Some(4)
    [] seg = "5" -> Some(5)
    [] seg = "999" -> Some(999)
    [] seg = "0" -> Some(0)
    [] seg = "" -> Some(0)
    [] OTHER -> Null

\* !lessonId
Falsy(n) == IsNull(n) \/ Val(n) = 0

(***************************************************************************)
(* State.                                                                  *)
(***************************************************************************)
VARIABLES
  lessons,     \* the lessons table: id -> row
  pc,          \* per session: where its connection handler stands
  target,      \* per session: last path segment of the request url
  script,      \* per session: const script = row.script
  paused,      \* per session: let paused
  listening,   \* per session: ws.on("message", ...) has been registered
  ci,          \* per session: index of the chunk of the outer for loop
  di,          \* per session: index of the directive of the inner for loop
  inbox,       \* per session: control messages sent, not yet handled
  conn,        \* per session: "none", "open", "serverClosed", "clientClosed"
  emitted,     \* per session: the events handed to an open socket, in order
  rpc,         \* per request: where its POST /lessons/start handler stands
  body,        \* per request: req.body
  topic,       \* per request: topicTitle
  raw,         \* per request: the chat completion of step 3, as received
  work,        \* per request: the script in the making
  done,        \* per request: expandedChunks, then the chunks that had their TTS
  lessonId,    \* per request: inserted.id
  response,    \* per request: what res.status(..).json(..) answered
  storage,     \* the object store: the paths that hold audio
  input,       \* the argument of a function that is run on its own
  output       \* what that function returned, null before it has run

asmVars == <<rpc, body, topic, raw, work, done, lessonId, response, storage>>
playVars == <<pc, target, script, paused, listening, ci, di, inbox, conn, emitted>>
pureVars == <<input, output>>
vars == <<lessons, playVars, asmVars, pureVars>>

\* The awaits of the handler (and its ends): the turn is over.
Yielded(p) ==
  p \in {"idle", "loading", "waitChunk", "waitDir", "sleepDir", "sleepEnd", "done", "ended",
          "crashed"}

\* No callback is running.
JsIdle == \A s \in Sessions : Yielded(pc[s])

Messages == {"PAUSE", "RESUME", "OTHER"}

(***************************************************************************)
(* Events on the wire.                                                     *)
(***************************************************************************)
StepStart(ch) == [type |-> "STEP_START", chunkId |-> ch.id, ttsAudioUrl |-> ch.ttsAudioUrl]
StepEnd(ch) == [type |-> "STEP_END", chunkId |-> ch.id]
LessonEnd == [type |-> "LESSON_END"]

\* ws.send on a socket that is not OPEN hands nothing to the peer.
Send(s, ev) ==
  IF conn[s] = "open" THEN [emitted EXCEPT ![s] = Append(@, ev)] ELSE emitted

PlayInit ==
  /\ pc = [s \in Sessions |-> "idle"]
  /\ target = [s \in Sessions |-> ""]
  /\ script = [s \in Sessions |-> NoScript]
  /\ paused = [s \in Sessions |-> FALSE]
  /\ listening = [s \in Sessions |-> FALSE]
  /\ ci = [s \in Sessions |-> 0]
  /\ di = [s \in Sessions |-> 0]
  /\ inbox = [s \in Sessions |-> <<>>]
  /\ conn = [s \in Sessions |-> "none"]
  /\ emitted = [s \in Sessions |-> <<>>]

\* wss.on("connection"): parse the lesson id, close on a falsy one, else
\* start the select and await it.
Connect(s, seg) ==
  /\ JsIdle
  /\ pc[s] = "idle"
  /\ target' = [target EXCEPT ![s] = seg]
  /\ IF Falsy(Number(seg))
       THEN /\ pc' = [pc EXCEPT ![s] = "ended"]
            /\ conn' = [conn EXCEPT ![s] = "serverClosed"]
       ELSE /\ pc' = [pc EXCEPT ![s] = "loading"]
            /\ conn' = [conn EXCEPT ![s] = "open"]
  /\ UNCHANGED <<lessons, asmVars, pureVars, script, paused, listening, ci, di, inbox, emitted>>

\* if (error || !row?.script)
LoadFailsErrorOnly(err, row) == err
LoadFails(err, row) == err \/ IsNull(row) \/ IsNull(Val(row).script)

\* The select has answered (err: it reported an error, and then no data):
\* close when there is no script, else keep the script, register the message
\* handler and enter the streaming loop.  Reading .script of a null row, or
\* .chunks of a null script, throws: the handler's promise rejects and
\* nothing closes the socket.
Load(s, err) ==
  /\ JsIdle
  /\ pc[s] = "loading"
  /\ LET id == Val(Number(target[s]))
         row == IF ~err /\ id \in DOMAIN lessons THEN Some(lessons[id]) ELSE Null
     IN IF LoadFails(err, row)
          THEN /\ pc' = [pc EXCEPT ![s] = "ended"]
               /\ conn' = [conn EXCEPT ![s] = IF @ = "open" THEN "serverClosed" ELSE @]
               /\ UNCHANGED <<script, paused, listening, ci>>
          ELSE IF IsNull(row) \/ IsNull(Val(row).script)
            THEN /\ pc' = [pc EXCEPT ![s] = "crashed"]
                 /\ listening' = [listening EXCEPT ![s] = ~IsNull(row)]
                 /\ UNCHANGED <<script, paused, ci, conn>>
            ELSE /\ pc' = [pc EXCEPT ![s] = "chunkTop"]
                 /\ script' = [script EXCEPT ![s] = Val(Val(row).script)]
                 /\ paused' = [paused EXCEPT ![s] = FALSE]
                 /\ listening' = [listening EXCEPT ![s] = TRUE]
                 /\ ci' = [ci EXCEPT ![s] = 1]
                 /\ UNCHANGED conn
  /\ UNCHANGED <<lessons, asmVars, pureVars, target, di, inbox, emitted>>

\* The step of a for loop to its next element.
NextIndex(i) == i + 1

CurChunk(s) == script[s].chunks[ci[s]]

\* The head of the outer loop, line 69-71 (and line 83 once the chunks are
\* exhausted): wait when paused, else STEP_START.
ChunkTop(s) ==
  /\ pc[s] = "chunkTop"
  /\ IF ci[s] > Len(script[s].chunks)
       THEN /\ emitted' = Send(s, LessonEnd)
            /\ pc' = [pc EXCEPT ![s] = "done"]
            /\ UNCHANGED di
       ELSE IF paused[s]
         THEN /\ pc' = [pc EXCEPT ![s] = "waitChunk"]
              /\ UNCHANGED <<emitted, di>>
         ELSE /\ emitted' = Send(s, StepStart(CurChunk(s)))
              /\ di' = [di EXCEPT ![s] = 1]
              /\ pc' = [pc EXCEPT ![s] = "dirTop"]
  /\ UNCHANGED <<lessons, asmVars, pureVars, target, script, paused, listening, ci, inbox, conn>>

\* A tick of waitUntil's interval before STEP_START: resolve when no longer
\* paused, and the continuation sends STEP_START in the same turn.
PollChunk(s) ==
  /\ JsIdle
  /\ pc[s] = "waitChunk"
  /\ IF paused[s]
       THEN UNCHANGED <<emitted, di, pc>>
       ELSE /\ emitted' = Send(s, StepStart(CurChunk(s)))
            /\ di' = [di EXCEPT ![s] = 1]
            /\ pc' = [pc EXCEPT ![s] = "dirTop"]
  /\ UNCHANGED <<lessons, asmVars, pureVars, target, script, paused, listening, ci, inbox, conn>>

\* The head of the inner loop, line 73-75 (and line 79 once the directives
\* are exhausted): wait when paused, else send the directive.
DirTop(s) ==
  /\ pc[s] = "dirTop"
  /\ IF di[s] > Len(CurChunk(s).whiteboard)
       THEN /\ emitted' = Send(s, StepEnd(CurChunk(s)))
            /\ pc' = [pc EXCEPT ![s] = "sleepEnd"]
       ELSE IF paused[s]
         THEN /\ pc' = [pc EXCEPT ![s] = "waitDir"]
              /\ UNCHANGED emitted
         ELSE /\ emitted' = Send(s, CurChunk(s).whiteboard[di[s]])
              /\ pc' = [pc EXCEPT ![s] = "sleepDir"]
  /\ UNCHANGED <<lessons, asmVars, pureVars, target, script, paused, listening, ci, di, inbox, conn>>

\* A tick of waitUntil's interval before a directive.
PollDirSkip(s) ==
  /\ JsIdle
  /\ pc[s] = "waitDir"
  /\ pc' = [pc EXCEPT ![s] = IF paused[s] THEN @ ELSE "sleepDir"]
  /\ UNCHANGED <<lessons, asmVars, pureVars, target, script, paused, listening, ci, di, inbox, conn, emitted>>
PollDir(s) ==
  /\ JsIdle
  /\ pc[s] = "waitDir"
  /\ IF paused[s]
       THEN UNCHANGED <<emitted, pc>>
       ELSE /\ emitted' = Send(s, CurChunk(s).whiteboard[di[s]])
            /\ pc' = [pc EXCEPT ![s] = "sleepDir"]
  /\ UNCHANGED <<lessons, asmVars, pureVars, target, script, paused, listening, ci, di, inbox, conn>>

\* sleep(500) is over: next directive.
WakeDir(s) ==
  /\ JsIdle
  /\ pc[s] = "sleepDir"
  /\ di' = [di EXCEPT ![s] = NextIndex(@)]
  /\ pc' = [pc EXCEPT ![s] = "dirTop"]
  /\ UNCHANGED <<lessons, asmVars, pureVars, target, script, paused, listening, ci, inbox, conn, emitted>>

\* sleep(700) is over: next chunk.
WakeEnd(s) ==
  /\ JsIdle
  /\ pc[s] = "sleepEnd"
  /\ ci' = [ci EXCEPT ![s] = NextIndex(@)]
  /\ pc' = [pc EXCEPT ![s] = "chunkTop"]
  /\ UNCHANGED <<lessons, asmVars, pureVars, target, script, paused, listening, di, inbox, conn, emitted>>

\* The client puts a control message on the wire.
ClientSend(s, m) ==
  /\ conn[s] = "open"
  /\ Len(inbox[s]) < MaxInbox
  /\ inbox' = [inbox EXCEPT ![s] = Append(@, m)]
  /\ UNCHANGED <<lessons, asmVars, pureVars, pc, target, script, paused, listening, ci, di, conn, emitted>>

\* let paused, as the message handler leaves it.
HandleShared(s, m) ==
  IF m = "PAUSE" THEN [t \in Sessions |-> TRUE]
  ELSE IF m = "RESUME" THEN [t \in Sessions |-> FALSE]
  ELSE paused
Handle(s, m) ==
  IF m = "PAUSE" THEN [paused EXCEPT ![s] = TRUE]
  ELSE IF m = "RESUME" THEN [paused EXCEPT ![s] = FALSE]
  ELSE paused

\* The "message" event with the handler in place from the connection on.
OnMessageEarly(s) ==
  /\ JsIdle
  /\ inbox[s] # <<>>
  /\ inbox' = [inbox EXCEPT ![s] = Tail(@)]
  /\ paused' = Handle(s, Head(inbox[s]))
  /\ UNCHANGED <<lessons, asmVars, pureVars, pc, target, script, listening, ci, di, conn, emitted>>

\* The socket's "message" event: the handler of line 50-56 when it has been
\* registered; an event without a listener is lost.
OnMessage(s) ==
  /\ JsIdle
  /\ inbox[s] # <<>>
  /\ inbox' = [inbox EXCEPT ![s] = Tail(@)]
  /\ paused' = IF listening[s] THEN Handle(s, Head(inbox[s])) ELSE paused
  /\ UNCHANGED <<lessons, asmVars, pureVars, pc, target, script, listening, ci, di, conn, emitted>>

\* The client goes away; what it had in flight is lost with the connection.
Disconnect(s) ==
  /\ JsIdle
  /\ conn[s] = "open"
  /\ conn' = [conn EXCEPT ![s] = "clientClosed"]
  /\ inbox' = [inbox EXCEPT ![s] = <<>>]
  /\ UNCHANGED <<lessons, asmVars, pureVars, pc, target, script, paused, listening, ci, di, emitted>>

SessionStep(s) ==
  \/ \E err \in BOOLEAN : Load(s, err)
  \/ ChunkTop(s)
  \/ PollChunk(s)
  \/ DirTop(s)
  \/ PollDir(s)
  \/ WakeDir(s)
  \/ WakeEnd(s)
  \/ OnMessage(s)

PlayNext(s) ==
  \/ \E seg \in Targets : Connect(s, seg)
  \/ SessionStep(s)
  \/ \E m \in Messages : ClientSend(s, m)
  \/ Disconnect(s)

(***************************************************************************)
(* POST /lessons/start.  An action is one turn of the handler: the answer  *)
(* of the call it awaited, and its code up to the next await.              *)
(***************************************************************************)
Requests == {"r1", "r2"}

\* The chapters and subtopics tables.
Chapters == (1 :> [title |-> <<"Fractions">>, grade |-> 4])
Subtopics == (7 :> [id |-> 7, title |-> <<"Halves">>])

Body(student, chapter, subtopic) ==
  [studentId |-> student, chapterId |-> chapter, subtopicId |-> subtopic]

\* res.status(code).json(...)
Reply(status, id, reused) == [status |-> status, lessonId |-> id, reused |-> reused]

\* What the chat completion of step 3 can come to: the call throws
\* ("throw"), the content is no JSON ("text"), or it is JSON ("json": c, after
\* the two Array.isArray defaults).
Completion(kind, c) == [kind |-> kind, raw |-> c]

RawScript(title, grade, chunks, practice) ==
  [chapterTitle |-> title, grade |-> grade, chunks |-> chunks, practice20 |-> practice]

NoCompletion == Completion("none", RawScript(Null, Null, <<>>, <<>>))

AsmInit ==
  /\ rpc = [r \in Requests |-> "idle"]
  /\ body = [r \in Requests |-> Body(Null, Null, Null)]
  /\ topic = [r \in Requests |-> <<>>]
  /\ raw = [r \in Requests |-> NoCompletion]
  /\ work = [r \in Requests |-> NoScript]
  /\ done = [r \in Requests |-> <<>>]
  /\ lessonId = [r \in Requests |-> Null]
  /\ response = [r \in Requests |-> Null]
  /\ storage = {}

\* The handler ends with a response.
Respond(r, rep) ==
  /\ rpc' = [rpc EXCEPT ![r] = "done"]
  /\ response' = [response EXCEPT ![r] = Some(rep)]

\* !studentId || !chapterId, !subtopicId: null, undefined and 0 alike
Missing(v) == IsNull(v) \/ Val(v) = 0

\* The request arrives: 400 without studentId or chapterId, else the first
\* select (lessons of the subtopic, or the chapter).
Start(r, b) ==
  /\ JsIdle
  /\ rpc[r] = "idle"
  /\ body' = [body EXCEPT ![r] = b]
  /\ IF IsNull(b.studentId) \/ Missing(b.chapterId)
       THEN Respond(r, Reply(400, Null, FALSE))
       ELSE /\ rpc' = [rpc EXCEPT ![r] = IF Missing(b.subtopicId) THEN "chapter" ELSE "find"]
            /\ UNCHANGED response
  /\ UNCHANGED <<lessons, playVars, pureVars, topic, raw, work, done, lessonId, storage>>

\* .eq("subtopic_id", subtopicId).order("id").limit(1)
Existing(subtopic) ==
  LET ids == {i \in DOMAIN lessons : lessons[i].subtopic_id = Some(subtopic)}
  IN IF ids = {} THEN Null ELSE Some(CHOOSE i \in ids : \A j \in ids : i <= j)

\* Step 0: a lesson of this subtopic exists: answer with it, generate nothing.
Find(r, findErr) ==
  /\ JsIdle
  /\ rpc[r] = "find"
  /\ LET existing == IF findErr THEN Null ELSE Existing(Val(body[r].subtopicId))
     IN IF ~IsNull(existing) /\ ~findErr
          THEN Respond(r, Reply(200, existing, TRUE))
          ELSE /\ rpc' = [rpc EXCEPT ![r] = "chapter"]
               /\ UNCHANGED response
  /\ UNCHANGED <<lessons, playVars, pureVars, body, topic, raw, work, done, lessonId, storage>>

\* Step 1: the chapter, 404 without it; then the subtopic, or the model.
FetchChapter(r, chapErr) ==
  /\ JsIdle
  /\ rpc[r] = "chapter"
  /\ LET id == Val(body[r].chapterId)
     IN IF chapErr \/ id \notin DOMAIN Chapters
          THEN /\ Respond(r, Reply(404, Null, FALSE))
               /\ UNCHANGED topic
          ELSE /\ rpc' = [rpc EXCEPT ![r] =
                            IF Missing(body[r].subtopicId) THEN "complete" ELSE "subtopic"]
               /\ topic' = [topic EXCEPT ![r] = Chapters[id].title]
               /\ UNCHANGED response
  /\ UNCHANGED <<lessons, playVars, pureVars, body, raw, work, done, lessonId, storage>>

\* Step 2: the subtopic's title is the topic when the subtopic is found.
FetchSubtopic(r) ==
  /\ JsIdle
  /\ rpc[r] = "subtopic"
  /\ LET id == Val(body[r].subtopicId)
     IN topic' = [topic EXCEPT ![r] = IF id \in DOMAIN Subtopics THEN Subtopics[id].title ELSE @]
  /\ rpc' = [rpc EXCEPT ![r] = "complete"]
  /\ UNCHANGED <<lessons, playVars, pureVars, body, raw, work, done, lessonId, response, storage>>

\* maybeExpandNarration returns the original without a call.
LongEnough(narr) == wordCount(narr) >= WordFloor

\* enrichScript's first loop runs on without an await over the chunks that
\* are long enough: the expandedChunks when it stops (at a chunk that needs
\* the model, or at the end).
RECURSIVE ExpandRun(_, _)
ExpandRun(chunks, acc) ==
  IF Len(acc) < Len(chunks) /\ LongEnough(chunks[Len(acc) + 1].romanUrdu)
    THEN ExpandRun(chunks, Append(acc, chunks[Len(acc) + 1]))
    ELSE acc

\* sanitizeScript before enrichScript's second loop.
FinishedLayoutFirst(sc, expanded) ==
  [sanitizeScript([sc EXCEPT !.chunks = expanded]) EXCEPT !.chunks =
    [i \in 1..Len(expanded) |->
       ensureRichWhiteboardForChunk(sanitizeScript([sc EXCEPT !.chunks = expanded]).chunks[i])]]

\* enrichScript's second loop, then sanitizeScript: the script to insert.
Finished(sc, expanded) ==
  sanitizeScript([sc EXCEPT !.chunks =
    [i \in 1..Len(expanded) |-> ensureRichWhiteboardForChunk(expanded[i])]])

\* The first loop goes on from expandedChunks = acc: to the next call of the
\* model, or through the second loop and sanitizeScript to the insert.
Enrich(r, sc, acc) ==
  LET run == ExpandRun(sc.chunks, acc)
  IN IF Len(run) < Len(sc.chunks)
       THEN /\ rpc' = [rpc EXCEPT ![r] = "expand"]
            /\ work' = [work EXCEPT ![r] = sc]
            /\ done' = [done EXCEPT ![r] = run]
       ELSE /\ rpc' = [rpc EXCEPT ![r] = "insert"]
            /\ work' = [work EXCEPT ![r] = Finished(sc, run)]
            /\ done' = [done EXCEPT ![r] = <<>>]

\* Step 3: 500 on a throw, on content that is no JSON and on JSON that
\* LessonScriptSchema rejects; else enrichment starts.
Complete(r, out) ==
  /\ JsIdle
  /\ rpc[r] = "complete"
  /\ raw' = [raw EXCEPT ![r] = out]
  /\ IF out.kind # "json" \/ ~ValidScript(out.raw)
       THEN /\ Respond(r, Reply(500, Null, FALSE))
            /\ UNCHANGED <<work, done>>
       ELSE /\ Enrich(r, Parsed(out.raw), <<>>)
            /\ UNCHANGED response
  /\ UNCHANGED <<lessons, playVars, pureVars, body, topic, lessonId, storage>>

\* The rewrite maybeExpandNarration asked for has come: the call threw
\* (nothing catches it before the handler's catch: 500), or it gave no text
\* (the original stays) or a text.
Expand(r, res) ==
  /\ JsIdle
  /\ rpc[r] = "expand"
  /\ LET ch == work[r].chunks[Len(done[r]) + 1]
     IN IF res.kind = "throw"
          THEN /\ Respond(r, Reply(500, Null, FALSE))
               /\ UNCHANGED <<work, done>>
          ELSE /\ Enrich(r, work[r],
                    Append(done[r],
                      [ch EXCEPT !.romanUrdu = IF res.text = <<>> THEN @ ELSE res.text]))
               /\ UNCHANGED response
  /\ UNCHANGED <<lessons, playVars, pureVars, body, topic, raw, lessonId, storage>>

NewId == IF DOMAIN lessons = {} THEN 1
         ELSE 1 + (CHOOSE i \in DOMAIN lessons : \A j \in DOMAIN lessons : j <= i)

\* Step 4: the insert; 500 when it fails; else TTS starts with the first
\* chunk, or, without chunks, the update of step 6 is sent.
Insert(r, insErr) ==
  /\ JsIdle
  /\ rpc[r] = "insert"
  /\ IF insErr
       THEN /\ Respond(r, Reply(500, Null, FALSE))
            /\ UNCHANGED <<lessons, lessonId>>
       ELSE /\ lessons' = lessons @@
                 (NewId :> Row(Val(body[r].studentId), Val(body[r].chapterId),
                               body[r].subtopicId, topic[r], Some(work[r])))
            /\ lessonId' = [lessonId EXCEPT ![r] = Some(NewId)]
            /\ rpc' = [rpc EXCEPT ![r] = IF work[r].chunks = <<>> THEN "update" ELSE "tts"]
            /\ UNCHANGED response
  /\ UNCHANGED <<playVars, pureVars, body, topic, raw, work, done, storage>>

\* Step 5, one chunk: speech.create throws or the audio is under 200 bytes
\* (no reference), else the upload (whose error nothing reads) and the
\* public url of the path.
TtsOutcomes == {"throw", "short", "stored", "uploadError"}

AudioPath(id, chunkId) == <<"lessons", id, "audio", chunkId>>

\* Tts without the try / catch around the chunk: a throw ends the request.
TtsFatal(r, outcome) ==
  /\ JsIdle
  /\ rpc[r] = "tts"
  /\ LET k == Len(done[r]) + 1
         ch == work[r].chunks[k]
         path == AudioPath(Val(lessonId[r]), ch.id)
         ch2 == IF outcome \in {"stored", "uploadError"}
                  THEN [ch EXCEPT !.ttsAudioUrl = Some(path)] ELSE ch
     IN IF outcome = "throw"
          THEN /\ Respond(r, Reply(500, Null, FALSE))
               /\ UNCHANGED <<storage, work, done>>
          ELSE /\ storage' = IF outcome = "stored" THEN storage \cup {path} ELSE storage
               /\ work' = [work EXCEPT ![r].chunks[k] = ch2]
               /\ done' = [done EXCEPT ![r] = Append(@, ch.id)]
               /\ rpc' = [rpc EXCEPT ![r] = IF k = Len(work[r].chunks) THEN "update" ELSE "tts"]
               /\ UNCHANGED response
  /\ UNCHANGED <<lessons, playVars, pureVars, body, topic, raw, lessonId>>

Tts(r, outcome) ==
  /\ JsIdle
  /\ rpc[r] = "tts"
  /\ LET k == Len(done[r]) + 1
         ch == work[r].chunks[k]
         path == AudioPath(Val(lessonId[r]), ch.id)
         ch2 == IF outcome \in {"stored", "uploadError"}
                  THEN [ch EXCEPT !.ttsAudioUrl = Some(path)] ELSE ch
     IN /\ storage' = IF outcome = "stored" THEN storage \cup {path} ELSE storage
        /\ work' = [work EXCEPT ![r].chunks[k] = ch2]
        /\ done' = [done EXCEPT ![r] = Append(@, ch.id)]
        /\ rpc' = [rpc EXCEPT ![r] = IF k = Len(work[r].chunks) THEN "update" ELSE "tts"]
  /\ UNCHANGED <<lessons, playVars, pureVars, body, topic, raw, lessonId, response>>

\* Step 6 and 7: the update with the audio references (its error is not
\* read), then the answer.
Update(r, updErr) ==
  /\ JsIdle
  /\ rpc[r] = "update"
  /\ lessons' = IF updErr THEN lessons
                ELSE [lessons EXCEPT ![Val(lessonId[r])].script = Some(work[r])]
  /\ Respond(r, Reply(200, lessonId[r], FALSE))
  /\ UNCHANGED <<playVars, pureVars, body, topic, raw, work, done, lessonId, storage>>

(***************************************************************************)
(* What a request can meet: the bodies clients post, the answers of the    *)
(* model, the outcomes of the database and storage calls.                  *)
(***************************************************************************)
Bodies ==
  { Body(Null, Some(1), Null),            \* no studentId
    Body(Some("stu"), Some(0), Null),     \* chapterId 0
    Body(Some("stu"), Some(9), Null),     \* no such chapter
    Body(Some("stu"), Some(1), Null),     \* the whole chapter
    Body(Some("stu"), Some(1), Some(7)),  \* a subtopic without a lesson
    Body(Some("stu"), Some(1), Some(6)),  \* a subtopic id without a subtopic
    Body(Some("stu"), Some(1), Some(8)) } \* a subtopic with a lesson

\* A narration of n words.
Words(n) == [i \in 1..n |-> "lafz"]

ShortNarration == <<"3/4", "of", "a", "pizza.">>

\* A short and a long narration, one directive each.
RawTwoChunks ==
  RawScript(Some("Fractions"), Some(4),
    << Chunk("k1", <<"Pizza">>, ShortNarration,
             << WriteText(Some(<<"Pizza">>), Null, Null) >>, Null),
       Chunk("k2", <<"Long">>, Words(WordFloor),
             << FractionBar(Some(3), Some(0), Some(40), Null) >>, Null) >>,
    <<>>)

\* One long narration and a practice item with a whiteboard.
RawWithPractice ==
  RawScript(Some("Fractions"), Some(4),
    << Chunk("k1", <<"Long">>, Words(WordFloor), <<>>, Null) >>,
    << PracticeItem(<<"1/2", "+", "1/2", "?">>,
                    Some(<< Erase(Null, Null, Null, Null),
                            WriteText(Some(<<"1">>), Some(40), Null) >>)),
       PracticeItem(<<"2", "+", "2", "?">>, Null) >>)

RawNoChunks == RawScript(Some("Fractions"), Some(4), <<>>, <<>>)

\* "{}": no chapterTitle, no grade
RawEmptyObject == RawScript(Null, Null, <<>>, <<>>)

\* An ERASE with x and nothing else, after a directive that is in order.
RawPartialErase ==
  RawScript(Some("Fractions"), Some(4),
    << Chunk("k1", <<"Long">>, Words(WordFloor),
             << WriteText(Some(<<"Long">>), Some(40), Some(60)),
                Erase(Some(0), Null, Null, Null) >>, Null) >>,
    <<>>)

\* A WRITE_TEXT without text in a short chunk.
RawNoText ==
  RawScript(Some("Fractions"), Some(4),
    << Chunk("k1", <<"Pizza">>, ShortNarration,
             << WriteText(Null, Some(40), Some(60)) >>, Null) >>,
    <<>>)

\* A fraction bar without denominator on a practice item.
RawNoDenominator ==
  RawScript(Some("Fractions"), Some(4),
    << Chunk("k1", <<"Long">>, Words(WordFloor), <<>>, Null) >>,
    << PracticeItem(<<"1/2", "?">>,
                    Some(<< FractionBar(Some(1), Null, Some(40), Some(60)) >>)) >>)

\* A tag outside the enum.
RawUnknownTag ==
  RawScript(Some("Fractions"), Some(4),
    << Chunk("k1", <<"Long">>, Words(WordFloor),
             << Flat("DRAW_CIRCLE", Some(1), Some(1), Null, Null, Null, Null, Null, Null, Null) >>,
             Null) >>,
    <<>>)

Completions ==
  { Completion("throw", RawEmptyObject), Completion("text", RawEmptyObject) } \cup
  { Completion("json", c) :
      c \in { RawTwoChunks, RawWithPractice, RawNoChunks, RawEmptyObject,
              RawPartialErase, RawNoText, RawNoDenominator, RawUnknownTag } }

\* The rewrite call: it throws, or answers with no text, a text under the
\* floor, or a text at the floor.
Expansion(kind, text) == [kind |-> kind, text |-> text]

Expansions ==
  { Expansion("throw", <<>>), Expansion("ok", <<>>),
    Expansion("ok", <<"1/2", "aur", "1/4.", "Tip.">>), Expansion("ok", Words(WordFloor)) }

\* One turn of request r.
AsmStep(r) ==
  \/ \E b \in Bodies : Start(r, b)
  \/ \E e \in BOOLEAN : Find(r, e)
  \/ \E e \in BOOLEAN : FetchChapter(r, e)
  \/ FetchSubtopic(r)
  \/ \E out \in Completions : Complete(r, out)
  \/ \E res \in Expansions : Expand(r, res)
  \/ \E e \in BOOLEAN : Insert(r, e)
  \/ \E o \in TtsOutcomes : Tts(r, o)
  \/ \E e \in BOOLEAN : Update(r, e)


(***************************************************************************)
(* One connection replaying any of the lessons.                            *)
(***************************************************************************)
\* No function is run on its own.
PureInit == input = Null /\ output = Null

Init == lessons = PlaybackLessons /\ PlayInit /\ AsmInit /\ PureInit
Next == PlayNext("s1")
Spec == Init /\ [][Next]_vars

(***************************************************************************)
(* Two connections at once.                                                *)
(***************************************************************************)
NextPair == \E s \in Sessions : PlayNext(s)
SpecPair == Init /\ [][NextPair]_vars

(***************************************************************************)
(* One connection under Node's event loop: a timer that is due fires, a    *)
(* continuation that is ready runs, a message that has arrived is handled. *)
(***************************************************************************)
FairSpec == Spec /\ WF_vars(SessionStep("s1"))

\* The same with every source of callbacks fair on its own: the answer of
\* the select, the continuations, the interval of waitUntil, the two
\* sleeps and the message event.
FairSteps(s) ==
  /\ WF_vars(\E err \in BOOLEAN : Load(s, err))
  /\ WF_vars(ChunkTop(s))
  /\ WF_vars(PollChunk(s))
  /\ WF_vars(DirTop(s))
  /\ WF_vars(PollDir(s))
  /\ WF_vars(WakeDir(s))
  /\ WF_vars(WakeEnd(s))
  /\ WF_vars(OnMessage(s))
FairStepsSpec == Spec /\ FairSteps("s1")

(***************************************************************************)
(* One POST /lessons/start, whatever it is asked and whatever it meets.    *)
(***************************************************************************)
NextAsm == AsmStep("r1")
SpecAsm == Init /\ [][NextAsm]_vars

(***************************************************************************)
(* Two requests for the lesson of subtopic 7, every call of theirs         *)
(* succeeding, and a client that connects to /ws/lessons/5.                *)
(***************************************************************************)
\* Two chunks that need no rewrite and no fresh whiteboard.
RaceWhiteboard ==
  << WriteText(Some(<<"Halves">>), Null, Null),
     WriteText(Some(<<"1/2">>), Null, Null),
     WriteText(Some(<<"Tip">>), Null, Null) >>

RawRace ==
  RawScript(Some("Fractions"), Some(4),
    << Chunk("k1", <<"Long">>, Words(WordFloor), RaceWhiteboard, Null),
       Chunk("k2", <<"More">>, Words(WordFloor), RaceWhiteboard, Null) >>, <<>>)

RaceStep(r) ==
  \/ Start(r, Body(Some("stu"), Some(1), Some(7)))
  \/ Find(r, FALSE)
  \/ FetchChapter(r, FALSE)
  \/ FetchSubtopic(r)
  \/ Complete(r, Completion("json", RawRace))
  \/ Insert(r, FALSE)
  \/ Tts(r, "stored")
  \/ Update(r, FALSE)

NextRace ==
  \/ \E r \in Requests : RaceStep(r)
  \/ Connect("s1", "5")
  \/ SessionStep("s1")
  \/ \E m \in Messages : ClientSend("s1", m)
  \/ Disconnect("s1")

SpecRace == Init /\ [][NextRace]_vars

(***************************************************************************)
(* WhiteboardDirectiveSchema on its own: a flat record is parsed, or a     *)
(* directive is encoded as the generation service is told to encode it     *)
(* and the encoding parsed.                                                *)
(***************************************************************************)
\* The flat records: every field present, of its type or null.  The empty
\* string is the text without words.
FlatRecords ==
  { Flat(type, x, y, text, speed, Null, num, den, w, h) :
      type \in DirectiveTypes \cup {"DRAW_CIRCLE"},
      x \in {Null, Some(0)}, y \in {Null, Some(60)},
      text \in {Null, Some(<<>>), Some(<<"Half">>)},
      speed \in {Null, Some("char")},
      num \in {Null, Some(1)}, den \in {Null, Some(0)},
      w \in {Null, Some(10)}, h \in {Null, Some(10)} }

\* The directives of types.ts: a record of the fields its variant has.
WriteTextDirectives ==
  { [type |-> "WRITE_TEXT", text |-> text, x |-> x, y |-> y] @@ speed @@ delay :
      text \in {<<>>, <<"Half">>}, x \in {0, 40}, y \in {60, 100},
      speed \in {[f \in {} |-> 0], [speed |-> "word"], [speed |-> "char"]},
      delay \in {[f \in {} |-> 0], [delayMsPerUnit |-> 350]} }

FractionBarDirectives ==
  { [type |-> "DRAW_FRACTION_BAR", numerator |-> n, denominator |-> d, x |-> x, y |-> y] :
      n \in {1, 3}, d \in {2, 4}, x \in {0, 40}, y \in {60, 100} }

EraseDirectives ==
  { [type |-> "ERASE"] } \cup
  { [type |-> "ERASE", x |-> x, y |-> y, w |-> w, h |-> h] :
      x \in {0, 40}, y \in {60, 100}, w \in {10, 20}, h \in {10, 20} }

\* The flat encoding of a directive: its fields, null for every other.
Encode(d) ==
  LET field(f) == IF f \in DOMAIN d THEN Some(d[f]) ELSE Null
  IN Flat(d.type, field("x"), field("y"), field("text"), field("speed"),
          field("delayMsPerUnit"), field("numerator"), field("denominator"),
          field("w"), field("h"))

\* WhiteboardDirectiveSchema.safeParse: the record as it came when it is
\* valid (no transform, no key stripped: the object is strict).
Decode(flat) ==
  IF ValidDirective(flat) THEN [success |-> TRUE, data |-> Some(flat)]
  ELSE [success |-> FALSE, data |-> Null]

SchemaInit ==
  /\ \/ \E flat \in FlatRecords : input = [kind |-> "flat", v |-> flat]
     \/ \E d \in WriteTextDirectives \cup FractionBarDirectives \cup EraseDirectives :
          input = [kind |-> "directive", v |-> d]
  /\ output = Null

\* A flat record is parsed.
Parse ==
  /\ input.kind = "flat" /\ output = Null
  /\ output' = Some(Decode(input.v))
  /\ UNCHANGED <<lessons, playVars, asmVars, input>>

\* A directive is encoded and the encoding parsed.
RoundTrip ==
  /\ input.kind = "directive" /\ output = Null
  /\ output' = Some(Decode(Encode(input.v)))
  /\ UNCHANGED <<lessons, playVars, asmVars, input>>

NextSchema == Parse \/ RoundTrip
InitSchema == lessons = PlaybackLessons /\ PlayInit /\ AsmInit /\ SchemaInit
SpecSchema == InitSchema /\ [][NextSchema]_vars

(***************************************************************************)
(* ensureRichWhiteboardForChunk on its own, on chunks as validation lets   *)
(* them through.                                                           *)
(***************************************************************************)
Narrations ==
  { <<>>, <<"ek">>, ShortNarration, <<"tip!", "suno", "hai.", "ek">>,
    <<"1/0", "ka", "hissa">>, Words(MaxWordsPerLine + 1), Words(WordFloor) }

Whiteboards ==
  { <<>>,
    << WriteText(Some(<<"Half">>), Null, Null) >>,
    << WriteText(Some(<<>>), Some(40), Some(60)), WriteText(Some(<<"b">>), Null, Null) >>,
    << FractionBar(Some(1), Some(2), Null, Null), Erase(Null, Null, Null, Null) >>,
    << WriteText(Some(<<"a">>), Null, Null), FractionBar(Some(1), Some(2), Null, Null),
       WriteText(Some(<<"b">>), Null, Some(60)) >>,
    << WriteText(Some(<<"a">>), Null, Null), WriteText(Some(<<"b">>), Null, Null),
       WriteText(Some(<<"c">>), Null, Null) >>,
    << WriteText(Some(<<"a">>), Null, Some(60)), FractionBar(Some(1), Some(2), Null, Null),
       WriteText(Some(<<"b">>), Null, Null), Erase(Some(0), Some(0), Some(10), Some(10)),
       WriteText(Some(<<"c">>), Null, Null), WriteText(Some(<<"d">>), Null, Some(100)) >> }

EnrichInit ==
  /\ \E title \in {<<"Half">>, <<>>} : \E narr \in Narrations : \E wb \in Whiteboards :
       input = Some(Chunk("k1", title, narr, wb, Null))
  /\ output = Null

\* The second loop of enrichScript, for one chunk.
EnsureRich ==
  /\ output = Null
  /\ output' = Some(ensureRichWhiteboardForChunk(Val(input)))
  /\ UNCHANGED <<lessons, playVars, asmVars, input>>

NextEnrich == EnsureRich
InitEnrich == lessons = PlaybackLessons /\ PlayInit /\ AsmInit /\ EnrichInit
SpecEnrich == InitEnrich /\ [][NextEnrich]_vars

(***************************************************************************)
(* sanitizeScript on its own, on scripts as validation lets them through.  *)
(***************************************************************************)
\* Whiteboards of directives that lack speed and delay, or have an x.
BareWhiteboards ==
  { << Flat("WRITE_TEXT", Null, Null, Some(<<"a">>), Null, Null, Null, Null, Null, Null),
       Flat("WRITE_TEXT", Some(10), Null, Some(<<>>), Some("char"), Some(100),
            Null, Null, Null, Null),
       FractionBar(Some(3), Some(0), Some(10), Some(200)) >>,
    << WriteText(Some(<<"a">>), Some(40), Some(200)),
       FractionBar(Some(1), Some(2), Null, Null) >>,
    << WriteText(Some(<<"a">>), Null, Null),
       WriteText(Some(<<"b">>), Null, Null),
       FractionBar(Some(1), Some(2), Null, Null) >> }

PracticeLists ==
  { <<>>,
    << PracticeItem(<<"2", "+", "2", "?">>, Null) >>,
    << PracticeItem(<<"1/2", "?">>,
         Some(<< FractionBar(Some(1), Some(2), Null, Null),
                 WriteText(Some(<<"1/2">>), Null, Null),
                 Erase(Null, Null, Null, Null),
                 FractionBar(Some(1), Some(4), Some(10), Some(300)) >>)),
       PracticeItem(<<"2", "+", "2", "?">>, Some(<<>>)) >>,
    << PracticeItem(<<"1/4", "?">>,
         Some(<< Erase(Some(0), Some(0), Some(10), Some(10)),
                 Flat("WRITE_TEXT", Null, Null, Some(<<"1/4">>), Null, Null,
                      Null, Null, Null, Null) >>)) >> }

SanitizeInit ==
  /\ \E wb1 \in Whiteboards \cup BareWhiteboards :
     \E wb2 \in Whiteboards \cup BareWhiteboards :
     \E practice \in PracticeLists :
       input = Some(FullScript("Fractions", 4,
                 << Chunk("k1", <<"Half">>, <<"adha">>, wb1, Null),
                    Chunk("k2", <<"Quarter">>, <<"chauthai">>, wb2, Null) >>,
                 practice))
  /\ output = Null

Sanitize ==
  /\ output = Null
  /\ output' = Some(sanitizeScript(Val(input)))
  /\ UNCHANGED <<lessons, playVars, asmVars, input>>

NextSanitize == Sanitize
InitSanitize == lessons = PlaybackLessons /\ PlayInit /\ AsmInit /\ SanitizeInit
SpecSanitize == InitSanitize /\ [][NextSanitize]_vars

(***************************************************************************)
(* Properties of the playback director.                                    *)
(***************************************************************************)
IsPrefix(a, b) == Len(a) <= Len(b) /\ SubSeq(b, 1, Len(a)) = a

RECURSIVE ChunkEvents(_)
ChunkEvents(chunks) ==
  IF chunks = <<>> THEN <<>>
  ELSE <<StepStart(Head(chunks))>> \o Head(chunks).whiteboard
         \o <<StepEnd(Head(chunks))>> \o ChunkEvents(Tail(chunks))

\* The one sequence a script defines.
Timeline(sc) == ChunkEvents(sc.chunks) \o <<LessonEnd>>

Streaming(s) == pc[s] \notin {"idle", "loading", "ended", "crashed"}

\* C1: whatever PAUSE and RESUME messages arrive and whenever, what a
\* session has emitted is a prefix of its script's timeline (per chunk
\* STEP_START, its directives in order, STEP_END; LESSON_END last).
C1_EmittedIsPrefixOfTimeline ==
  \A s \in Sessions : IsPrefix(emitted[s], Timeline(script[s]))

\* A session that was paused before the second chunk and has handled the
\* RESUME, its wait not yet over.
C1_Witness ==
  /\ pc["s1"] = "waitChunk" /\ ~paused["s1"] /\ ci["s1"] = 2
  /\ Len(emitted["s1"]) = 4

\* C2: while a session is paused no event of any kind is emitted.
C2_PausedEmitsNothing ==
  [][\A s \in Sessions : paused[s] => emitted'[s] = emitted[s]]_vars

\* The session has emitted STEP_START of its current chunk, which has a
\* directive, and nothing of that chunk since.
AfterStepStart(s) ==
  /\ Streaming(s) /\ pc[s] # "done" /\ conn[s] = "open"
  /\ ci[s] <= Len(script[s].chunks)
  /\ CurChunk(s).whiteboard # <<>>
  /\ emitted[s] # <<>>
  /\ emitted[s][Len(emitted[s])] = StepStart(CurChunk(s))

\* A step of the session that hands an event to the socket.
Emits(s) == SessionStep(s) /\ emitted'[s] # emitted[s]

\* C3: when a PAUSE reaches the session after the STEP_START of a chunk and
\* before that chunk's first directive, the session can emit nothing as
\* things stand (the claim goes on: nothing until RESUME, and then that
\* chunk's first directive comes first).
C3_PauseAfterStepStartHolds ==
  [][\A s \in Sessions :
       (AfterStepStart(s) /\ inbox'[s] = Append(inbox[s], "PAUSE"))
         => ~(ENABLED Emits(s))']_vars

\* C4: once the client has disconnected the session terminates (its loop
\* and its pause wait stop): a session whose client is gone has reached its
\* end or can still take a step that changes something.  (Nothing but its
\* own steps changes a disconnected session: no message reaches it any
\* more.  Where this fails the interval of waitUntil ticks for ever.)
C4_DisconnectTerminates ==
  \A s \in Sessions :
    conn[s] = "clientClosed" =>
      (pc[s] \in {"done", "ended"} \/ ENABLED <<SessionStep(s)>>_vars)

\* The lesson identifier resolves to a persisted script.
HasScript(seg) ==
  /\ ~Falsy(Number(seg))
  /\ Val(Number(seg)) \in DOMAIN lessons
  /\ ~IsNull(lessons[Val(Number(seg))].script)

\* C5: a connection whose lesson identifier resolves to no persisted script
\* (no row, a null script, a load error, a non-numeric or zero identifier)
\* sends no event, never streams, and ends with the socket closed.
C5_NoScriptNoEvents ==
  \A s \in Sessions :
    /\ (pc[s] \notin {"idle", "loading"} /\ ~HasScript(target[s])) => pc[s] = "ended"
    /\ pc[s] = "ended" => (emitted[s] = <<>> /\ conn[s] \in {"serverClosed", "clientClosed"})

\* A connection for lesson 999, which has no row, closed by the server.
C5_Witness ==
  target["s1"] = "999" /\ pc["s1"] = "ended" /\ conn["s1"] = "serverClosed"

\* C6: a session whose client stayed has, at its end, emitted LESSON_END
\* once and last, and closed the connection.
C6_LessonEndThenClose ==
  \A s \in Sessions :
    (pc[s] = "done" /\ conn[s] # "clientClosed") =>
      /\ emitted[s] = Timeline(script[s])
      /\ Cardinality({i \in 1..Len(emitted[s]) : emitted[s][i] = LessonEnd}) = 1
      /\ conn[s] = "serverClosed"

\* The variables of one session.
sessionVars(s) ==
  <<pc[s], target[s], script[s], paused[s], listening[s], ci[s], di[s], inbox[s], conn[s],
    emitted[s]>>

\* C8: a session's paused flag changes only as that session handles its own
\* PAUSE or RESUME; a step of one session (its messages, its progress, its
\* disconnect) changes nothing of the other; each session's events are a
\* prefix of the timeline, all of it once the session is done with its
\* client still there.
C8_SessionsIndependent ==
  [][\A s \in Sessions :
       /\ paused'[s] # paused[s] =>
            /\ inbox[s] # <<>> /\ inbox'[s] = Tail(inbox[s])
            /\ Head(inbox[s]) = (IF paused'[s] THEN "PAUSE" ELSE "RESUME")
       /\ sessionVars(s)' # sessionVars(s) =>
            \A t \in Sessions \ {s} : sessionVars(t)' = sessionVars(t)
       /\ IsPrefix(emitted'[s], Timeline(script'[s]))
       /\ (pc'[s] = "done" /\ conn'[s] = "open") => emitted'[s] = Timeline(script'[s])
    ]_vars

\* Both sessions replay lesson 1; one sits paused before the first chunk's
\* second directive while the other has emitted the whole timeline.
C8_Witness ==
  /\ target["s1"] = "1" /\ target["s2"] = "1"
  /\ paused["s1"] /\ pc["s1"] = "waitDir" /\ Len(emitted["s1"]) = 2
  /\ ~paused["s2"] /\ pc["s2"] = "done" /\ emitted["s2"] = Timeline(ScriptTwoChunks)

(***************************************************************************)
(* Properties of the script assembler.                                     *)
(***************************************************************************)
\* The assembler has inserted lesson id and has not yet sent its update.
WritesPending(id) ==
  \E r \in Requests : lessonId[r] = Some(id) /\ rpc[r] \in {"tts", "update"}

\* A response has told a client of lesson id.
HandedOut(id) ==
  \E r \in Requests : ~IsNull(response[r]) /\ Val(response[r]).lessonId = Some(id)

\* C7: no playback session loads the script of a lesson (one a response has
\* named to a client) between the assembler's insert of the row and its
\* update of the row with the audio references.
C7_NoReadWhileWritesPending ==
  [][\A s \in Sessions : \A id \in DOMAIN lessons :
       (/\ pc[s] = "loading" /\ pc'[s] = "chunkTop"
        /\ Number(target[s]) = Some(id)
        /\ HandedOut(id))
         => ~WritesPending(id)]_vars

\* The rules every directive is to meet, as the specification lists them.
BreaksRules(d) ==
  \/ d.type \notin {"WRITE_TEXT", "DRAW_FRACTION_BAR", "ERASE"}
  \/ d.type = "WRITE_TEXT" /\ d.text = Null
  \/ d.type = "DRAW_FRACTION_BAR" /\ (d.numerator = Null \/ d.denominator = Null)
  \/ d.type = "ERASE" /\
       Cardinality({f \in {"x", "y", "w", "h"} : d[f] # Null}) \in 1..3

\* Some directive of the generated content breaks the rules.
SchemaViolation(c) ==
  \/ \E i \in 1..Len(c.chunks) : \E k \in 1..Len(c.chunks[i].whiteboard) :
       BreaksRules(c.chunks[i].whiteboard[k])
  \/ \E j \in 1..Len(c.practice20) :
       /\ c.practice20[j].whiteboard # Null
       /\ \E k \in 1..Len(c.practice20[j].whiteboard[1]) :
            BreaksRules(c.practice20[j].whiteboard[1][k])

\* C9: when a directive of the generated content breaks the schema rules,
\* the request ends there with an error response: no row is inserted or
\* updated, and nothing of enrichment, sanitization or audio synthesis has
\* run (no script in the making, no chunk expanded, no audio stored).
C9_ValidationFailureAborts ==
  \A r \in Requests :
    (raw[r].kind = "json" /\ SchemaViolation(raw[r].raw)) =>
      /\ rpc[r] = "done"
      /\ ~IsNull(response[r]) /\ Val(response[r]).status = 500
      /\ Val(response[r]).lessonId = Null
      /\ lessonId[r] = Null
      /\ lessons = PlaybackLessons
      /\ work[r] = NoScript /\ done[r] = <<>>
      /\ storage = {}

\* The request whose content had an ERASE with one bound out of four,
\* behind a directive that is in order, has been answered.
C9_Witness ==
  /\ raw["r1"] = Completion("json", RawPartialErase)
  /\ rpc["r1"] = "done"
  /\ Val(response["r1"]).status = 500

\* C10: when the rewrite call fails for a chunk, the chunk keeps its
\* narration and assembly goes on (to the next chunk's rewrite or to the
\* insert), without a response yet.
C10_ExpansionFailureNonFatal ==
  [][\A r \in Requests :
       Expand(r, Expansion("throw", <<>>)) =>
         /\ IsNull(response'[r])
         /\ rpc'[r] \in {"expand", "insert"}
         /\ LET k == Len(done[r]) + 1
            IN (IF rpc'[r] = "insert" THEN work'[r].chunks[k] ELSE done'[r][k]).romanUrdu
                 = work[r].chunks[k].romanUrdu]_vars

\* C11: when the synthesis of a chunk's audio fails (the call throws, or the
\* audio is too short to keep) the request goes on: the row stays, the chunk
\* has no audio reference, the next chunk is synthesized (or, after the
\* last, the update is sent); and the request that has sent its update
\* answers 200 with the id of a row in which every chunk that got no
\* reference has none.
C11_AudioFailureNonFatal ==
  [][\A r \in Requests :
       /\ (\E o \in {"throw", "short"} : Tts(r, o)) =>
            LET k == Len(done[r]) + 1
            IN /\ IsNull(response'[r])
               /\ Val(lessonId'[r]) \in DOMAIN lessons'
               /\ IsNull(work'[r].chunks[k].ttsAudioUrl)
               /\ Len(done'[r]) = k
               /\ rpc'[r] = (IF k < Len(work[r].chunks) THEN "tts" ELSE "update")
       /\ (rpc[r] = "update" /\ rpc'[r] = "done") =>
            /\ Len(done[r]) = Len(work[r].chunks)
            /\ response'[r] = Some(Reply(200, lessonId[r], FALSE))
            /\ ~IsNull(lessonId[r]) /\ Val(lessonId[r]) \in DOMAIN lessons'
            /\ LET stored == Val(lessons'[Val(lessonId[r])].script)
               IN \A k \in 1..Len(work[r].chunks) :
                    IsNull(work[r].chunks[k].ttsAudioUrl) =>
                      /\ stored.chunks[k].id = work[r].chunks[k].id
                      /\ IsNull(stored.chunks[k].ttsAudioUrl)
    ]_vars

\* The request has answered with lesson 5, whose first chunk has no audio
\* reference and whose second has one.
C11_Witness ==
  /\ rpc["r1"] = "done"
  /\ response["r1"] = Some(Reply(200, Some(5), FALSE))
  /\ LET stored == Val(lessons[5].script)
     IN /\ Len(stored.chunks) = 2
        /\ IsNull(stored.chunks[1].ttsAudioUrl)
        /\ ~IsNull(stored.chunks[2].ttsAudioUrl)

\* A directive that has been through the sanitizer has its place.
Placed(d) ==
  d.type \in {"WRITE_TEXT", "DRAW_FRACTION_BAR"} => (d.x # Null /\ d.y # Null)

\* C12: a request inserts its row only with content that passed validation,
\* before any audio is synthesized, and the script it inserts is
\* sanitize(enrich(validated script)): the validated chunks, each with its
\* own narration or a rewrite of it, through ensureRichWhiteboardForChunk
\* and then sanitizeScript; every directive in it, those of enrichment
\* included, has its place.  Audio is synthesized only for a persisted row.
C12_PipelineOrder ==
  [][\A r \in Requests :
       /\ (rpc[r] = "insert" /\ rpc'[r] \in {"tts", "update"}) =>
            LET validated == Parsed(raw[r].raw)
                persisted == Val(lessons'[Val(lessonId'[r])].script)
                enriched ==
                  [validated EXCEPT !.chunks =
                     [i \in 1..Len(validated.chunks) |->
                        ensureRichWhiteboardForChunk(
                          [validated.chunks[i] EXCEPT
                             !.romanUrdu = persisted.chunks[i].romanUrdu])]]
            IN /\ raw[r].kind = "json" /\ ~SchemaViolation(raw[r].raw)
               /\ Val(lessonId'[r]) \notin DOMAIN lessons
               /\ Len(persisted.chunks) = Len(validated.chunks)
               /\ \A i \in 1..Len(validated.chunks) :
                    \/ persisted.chunks[i].romanUrdu = validated.chunks[i].romanUrdu
                    \/ /\ Len(validated.chunks[i].romanUrdu) < WordFloor
                       /\ \E e \in Expansions : e.text = persisted.chunks[i].romanUrdu
               /\ persisted = sanitizeScript(enriched)
               /\ \A i \in 1..Len(persisted.chunks) :
                    /\ persisted.chunks[i].ttsAudioUrl = Null
                    /\ \A k \in 1..Len(persisted.chunks[i].whiteboard) :
                         Placed(persisted.chunks[i].whiteboard[k])
               /\ storage = {} /\ done[r] = <<>>
       /\ (\E o \in TtsOutcomes : Tts(r, o)) =>
            (lessonId[r] # Null /\ lessonId[r][1] \in DOMAIN lessons)
    ]_vars

\* The row of a two-chunk script whose first narration was rewritten is
\* in, no audio yet; enrichment gave its second chunk a fresh whiteboard.
C12_Witness ==
  /\ rpc["r1"] = "tts" /\ done["r1"] = <<>>
  /\ raw["r1"] = Completion("json", RawTwoChunks)
  /\ 5 \in DOMAIN lessons
  /\ Len(lessons[5].script[1].chunks[1].romanUrdu) = WordFloor
  /\ Len(lessons[5].script[1].chunks[2].whiteboard) > 1

(***************************************************************************)
(* Properties of the schema.                                               *)
(***************************************************************************)
\* C13: a flat record fails validation exactly when its type is none of
\* the three tags, or it is a WRITE_TEXT without text, or a
\* DRAW_FRACTION_BAR without numerator or denominator, or an ERASE with
\* some but not all of x, y, w, h; so the empty text passes and every
\* partial ERASE fails.
C13_ValidationFailsExactly ==
  (input # Null /\ input.kind = "flat" /\ output # Null) =>
    /\ output[1].success <=> ~BreaksRules(input.v)
    /\ (input.v.type = "WRITE_TEXT" /\ input.v.text = Some(<<>>)) => output[1].success
    /\ (/\ input.v.type = "ERASE"
        /\ \E f \in {"x", "y", "w", "h"} : input.v[f] = Null
        /\ \E f \in {"x", "y", "w", "h"} : input.v[f] # Null) => ~output[1].success

\* An ERASE with x and nothing else has been rejected.
C13_Witness ==
  /\ input # Null /\ input.kind = "flat"
  /\ input.v = Erase(Some(0), Null, Null, Null)
  /\ output # Null /\ ~output[1].success

\* The object obj is the directive d: the same keys with the same values.
SameObject(obj, d) ==
  /\ {f \in DOMAIN obj : TRUE} = {f \in DOMAIN d : TRUE}
  /\ \A f \in DOMAIN d : obj[f] = Some(d[f])

\* C14: the encoding of a directive decodes to exactly that directive.
C14_RoundTrip ==
  (input # Null /\ input.kind = "directive" /\ output # Null) =>
    /\ output[1].success
    /\ SameObject(output[1].data[1], input.v)

(***************************************************************************)
(* Properties of enrichment.                                               *)
(***************************************************************************)
\* The WRITE_TEXT directives of a whiteboard, by position.
WriteTextsAt(wb) == {k \in 1..Len(wb) : wb[k].type = "WRITE_TEXT"}

\* C15: a chunk with fewer than three WRITE_TEXT directives has at least
\* three after ensureRichWhiteboardForChunk, whatever its narration (none,
\* one word, many).
C15_AtLeastThreeWriteTexts ==
  (input # Null /\ output # Null) =>
    (Cardinality(WriteTextsAt(input[1].whiteboard)) < 3 =>
       Cardinality(WriteTextsAt(output[1].whiteboard)) >= 3)

\* A chunk without narration and without directives has got its three.
C15_Witness ==
  /\ input # Null /\ output # Null
  /\ input[1].romanUrdu = <<>> /\ input[1].whiteboard = <<>>
  /\ Cardinality(WriteTextsAt(output[1].whiteboard)) = 3

\* C16: every chunk of an enriched script (the script a request is about
\* to insert) has a WRITE_TEXT with the chunk's title and at least four
\* WRITE_TEXT directives in all (title, two or more narration lines, the
\* example line).
C16_TitleLinesExample ==
  \A r \in Requests :
    rpc[r] = "insert" =>
      \A i \in 1..Len(work[r].chunks) :
        LET ch == work[r].chunks[i]
        IN /\ \E k \in WriteTextsAt(ch.whiteboard) : ch.whiteboard[k].text = Some(ch.title)
           /\ Cardinality(WriteTextsAt(ch.whiteboard)) >= 4

\* C17: when no rewrite call failed, every chunk of the enriched script has
\* a narration of at least 90 words.  (A request whose rewrite call failed
\* never gets to the insert.)
C17_NarrationAtLeastFloor ==
  \A r \in Requests :
    rpc[r] = "insert" =>
      \A i \in 1..Len(work[r].chunks) : Len(work[r].chunks[i].romanUrdu) >= 90

(***************************************************************************)
(* Properties of sanitization.                                             *)
(***************************************************************************)
\* The WRITE_TEXT directives of a whiteboard that have no y.
LackingY(wb) == {k \in WriteTextsAt(wb) : wb[k].y = Null}

\* C18: in each chunk, the y values given to the WRITE_TEXT directives that
\* had none go strictly up in directive order, whatever stands between
\* them.
C18_AssignedYIncreasing ==
  (input # Null /\ output # Null) =>
    \A i \in 1..Len(input[1].chunks) :
      LET before == input[1].chunks[i].whiteboard
          after == output[1].chunks[i].whiteboard
      IN \A k1, k2 \in LackingY(before) :
           k1 < k2 => (/\ after[k1].y # Null /\ after[k2].y # Null
                       /\ after[k1].y[1] < after[k2].y[1])

\* A chunk whose two WRITE_TEXT directives without y stand between two
\* with a y, a fraction bar and an ERASE has been sanitized.
C18_Witness ==
  /\ input # Null /\ output # Null
  /\ LET before == input[1].chunks[2].whiteboard
         after == output[1].chunks[2].whiteboard
     IN /\ Len(before) = 6 /\ LackingY(before) = {3, 5}
        /\ before[2].type = "DRAW_FRACTION_BAR" /\ before[4].type = "ERASE"
        /\ after[3].y = Some(DefaultY + DefaultRow)
        /\ after[5].y = Some(DefaultY + DefaultRow + LineStep)

\* C19: after sanitization no two WRITE_TEXT directives of a chunk have the
\* same y.
C19_NoEqualY ==
  (input # Null /\ output # Null) =>
    \A i \in 1..Len(output[1].chunks) :
      LET after == output[1].chunks[i].whiteboard
      IN \A k1, k2 \in WriteTextsAt(after) : k1 # k2 => after[k1].y # after[k2].y

\* C20: a second pass of sanitizeScript changes nothing of what the first
\* gave, in chunks and in practice items.
C20_SanitizeIdempotent ==
  (input # Null /\ output # Null) => sanitizeScript(output[1]) = output[1]

\* A script with a practice item whose fraction bar had no place, and one
\* whose bar had, has been sanitized, and the pass changed it.
C20_Witness ==
  /\ input # Null /\ output # Null
  /\ output # input
  /\ Len(input[1].practice20) = 2
  /\ input[1].practice20[1].whiteboard[1][1].y = Null
  /\ output[1].practice20[1].whiteboard[1][1].y # Null
  /\ output[1].practice20[1].whiteboard[1][4].y = Some(300)

\* The DRAW_FRACTION_BAR directives of a whiteboard, by position.
BarsAt(wb) == {k \in 1..Len(wb) : wb[k].type = "DRAW_FRACTION_BAR"}

\* C21: every DRAW_FRACTION_BAR of a sanitized script, in chunks and in
\* practice items, has a denominator above 0, whatever denominator it
\* came with.
C21_DenominatorPositive ==
  (input # Null /\ output # Null) =>
    /\ \A i \in 1..Len(output[1].chunks) :
         \A k \in BarsAt(output[1].chunks[i].whiteboard) :
           /\ output[1].chunks[i].whiteboard[k].denominator # Null
           /\ output[1].chunks[i].whiteboard[k].denominator[1] > 0
    /\ \A j \in 1..Len(output[1].practice20) :
         output[1].practice20[j].whiteboard # Null =>
           \A k \in BarsAt(output[1].practice20[j].whiteboard[1]) :
             /\ output[1].practice20[j].whiteboard[1][k].denominator # Null
             /\ output[1].practice20[j].whiteboard[1][k].denominator[1] > 0

\* C22: a chunk that has three or more WRITE_TEXT directives comes out of
\* ensureRichWhiteboardForChunk with the whiteboard it had (and as the
\* chunk it was), however short its narration.
C22_ThreeWriteTextsUntouched ==
  (input # Null /\ output # Null) =>
    (Cardinality(WriteTextsAt(input[1].whiteboard)) >= 3 =>
       /\ output[1].whiteboard = input[1].whiteboard
       /\ output[1] = input[1])

\* A chunk of exactly three WRITE_TEXT directives and a one-word narration
\* has been through enrichment.
C22_Witness ==
  /\ input # Null /\ output # Null
  /\ input[1].romanUrdu = <<"ek">>
  /\ Len(input[1].whiteboard) = 3
  /\ Cardinality(WriteTextsAt(input[1].whiteboard)) = 3
  /\ output[1].whiteboard = input[1].whiteboard

\* C23: in the script a finished request has left in its row, a chunk has
\* an audio reference only when the object store holds the audio it
\* refers to.
C23_AudioReferenceOnlyIfStored ==
  \A r \in Requests :
    (rpc[r] = "done" /\ lessonId[r] # Null) =>
      LET stored == lessons[lessonId[r][1]].script[1]
      IN \A k \in 1..Len(stored.chunks) :
           stored.chunks[k].ttsAudioUrl # Null =>
             stored.chunks[k].ttsAudioUrl[1] \in storage

\* The fields that belong to other variants only.
InactiveFields(type) ==
  CASE type = "WRITE_TEXT" -> {"numerator", "denominator", "w", "h"}
    [] type = "DRAW_FRACTION_BAR" -> {"text", "speed", "delayMsPerUnit", "w", "h"}
    [] type = "ERASE" -> {"text", "speed", "delayMsPerUnit", "numerator", "denominator"}
    [] OTHER -> {}

\* C24: a flat record that passes validation has null in every field that
\* belongs to other variants only.
C24_InactiveFieldsNull ==
  (input # Null /\ input.kind = "flat" /\ output # Null) =>
    (output[1].success =>
       \A f \in InactiveFields(input.v.type) : output[1].data[1][f] = Null)

\* What sanitization owes a directive, given the directive it was.
Concrete(before, after) ==
  /\ after.type = before.type
  /\ after.type = "WRITE_TEXT" =>
       (after.x # Null /\ after.y # Null /\ after.speed # Null /\ after.delayMsPerUnit # Null)
  /\ after.type = "DRAW_FRACTION_BAR" => (after.x # Null /\ after.y # Null)
  /\ after.type = "ERASE" =>
       (after.x = before.x /\ after.y = before.y /\ after.w = before.w /\ after.h = before.h)

\* C25: after sanitization every WRITE_TEXT, in chunks and in practice
\* items, has x, y, speed and delayMsPerUnit, every DRAW_FRACTION_BAR has x
\* and y, and every ERASE has the bounds it came with.
C25_ConcreteAfterSanitize ==
  (input # Null /\ output # Null) =>
    /\ Len(output[1].chunks) = Len(input[1].chunks)
    /\ \A i \in 1..Len(input[1].chunks) :
         /\ Len(output[1].chunks[i].whiteboard) = Len(input[1].chunks[i].whiteboard)
         /\ \A k \in 1..Len(input[1].chunks[i].whiteboard) :
              Concrete(input[1].chunks[i].whiteboard[k], output[1].chunks[i].whiteboard[k])
    /\ Len(output[1].practice20) = Len(input[1].practice20)
    /\ \A j \in 1..Len(input[1].practice20) :
         IF input[1].practice20[j].whiteboard = Null
           THEN output[1].practice20[j].whiteboard = Null
           ELSE /\ output[1].practice20[j].whiteboard # Null
                /\ Len(output[1].practice20[j].whiteboard[1])
                     = Len(input[1].practice20[j].whiteboard[1])
                /\ \A k \in 1..Len(input[1].practice20[j].whiteboard[1]) :
                     Concrete(input[1].practice20[j].whiteboard[1][k],
                              output[1].practice20[j].whiteboard[1][k])

\* A script with a chunk and a practice item whose WRITE_TEXT came without
\* x, y, speed and delay, the practice item behind a bounded ERASE, has
\* been sanitized.
C25_Witness ==
  /\ input # Null /\ output # Null
  /\ Len(input[1].chunks[1].whiteboard) = 3
  /\ input[1].chunks[1].whiteboard[1].speed = Null
  /\ output[1].chunks[1].whiteboard[1].speed = Some("word")
  /\ Len(input[1].practice20) = 1 /\ input[1].practice20[1].whiteboard # Null
  /\ Len(input[1].practice20[1].whiteboard[1]) = 2
  /\ input[1].practice20[1].whiteboard[1][2].delayMsPerUnit = Null
  /\ output[1].practice20[1].whiteboard[1][2].delayMsPerUnit = Some(DefaultDelay)
  /\ output[1].practice20[1].whiteboard[1][1] = Erase(Some(0), Some(0), Some(10), Some(10))

BarsLackingY(wb) == {k \in BarsAt(wb) : wb[k].y = Null}
Preceding(set, k) == {j \in set : j < k}
Last(set) == CHOOSE j \in set : \A other \in set : other <= j

\* C26 as stated: in every chunk a DRAW_FRACTION_BAR that lacks y gets a y
\* strictly greater than the y, after sanitization, of the nearest
\* WRITE_TEXT before it in the chunk, when there is one.
C26_BarBelowNearestText ==
  (input # Null /\ output # Null) =>
    \A i \in 1..Len(input[1].chunks) :
      LET before == input[1].chunks[i].whiteboard
          after == output[1].chunks[i].whiteboard
      IN \A k \in BarsLackingY(before) :
           Preceding(WriteTextsAt(before), k) # {} =>
             after[k].y[1] > after[Last(Preceding(WriteTextsAt(before), k))].y[1]

\* C26, amended: in every chunk a DRAW_FRACTION_BAR that lacks y gets a y
\* strictly greater than the y the sanitizer gave to the nearest WRITE_TEXT
\* before it that lacked y too, when there is one; a WRITE_TEXT that came
\* with its own y does not count.
C26_BarBelowLastPlacedText ==
  (input # Null /\ output # Null) =>
    \A i \in 1..Len(input[1].chunks) :
      LET before == input[1].chunks[i].whiteboard
          after == output[1].chunks[i].whiteboard
      IN \A k \in BarsLackingY(before) :
           Preceding(LackingY(before), k) # {} =>
             /\ after[k].y # Null
             /\ after[k].y[1] > after[Last(Preceding(LackingY(before), k))].y[1]

\* A chunk of two WRITE_TEXT directives without y and a bar without y
\* behind them has been sanitized: the bar stands 8 below the second line.
C26_Witness ==
  /\ input # Null /\ output # Null
  /\ LET before == input[1].chunks[1].whiteboard
         after == output[1].chunks[1].whiteboard
     IN /\ Len(before) = 3 /\ LackingY(before) = {1, 2} /\ BarsLackingY(before) = {3}
        /\ after[2].y = Some(DefaultY + LineStep)
        /\ after[3].y = Some(DefaultY + 2 * LineStep + BarOffset)

\* The directives of a whiteboard that the sanitizer gives a y.
AssignedY(wb) == LackingY(wb) \cup BarsLackingY(wb)

\* C27: every y the sanitizer assigns to a directive of a practice item is
\* strictly greater than every y it assigns to a directive of a chunk of
\* the same script.
C27_PracticeBelowChunks ==
  (input # Null /\ output # Null) =>
    \A j \in 1..Len(input[1].practice20) :
      input[1].practice20[j].whiteboard # Null =>
        \A pk \in AssignedY(input[1].practice20[j].whiteboard[1]) :
          \A i \in 1..Len(input[1].chunks) :
            \A ck \in AssignedY(input[1].chunks[i].whiteboard) :
              output[1].practice20[j].whiteboard[1][pk].y[1]
                > output[1].chunks[i].whiteboard[ck].y[1]

\* C28: when the client connects to a lesson with a script, stays
\* connected, and every PAUSE is eventually followed by a RESUME, the
\* session eventually sends LESSON_END.
C28_EventuallyLessonEnd ==
  ( /\ [](conn["s1"] \in {"none", "open"})
    /\ <>(pc["s1"] = "chunkTop")
    /\ (paused["s1"] ~> ~paused["s1"]) )
  => <>(LessonEnd \in {emitted["s1"][k] : k \in 1..Len(emitted["s1"])})

\* C29: a session is not paused before its script is loaded nor when it
\* reaches the first chunk, whatever the client sent meanwhile, and it
\* never waits for a RESUME before the first STEP_START.
C29_StartsNotPaused ==
  \A s \in Sessions :
    /\ pc[s] \in {"idle", "loading"} => ~paused[s]
    /\ (pc[s] = "chunkTop" /\ ci[s] = 1) => ~paused[s]
    /\ pc[s] = "waitChunk" => ci[s] > 1
    /\ (pc[s] \in {"chunkTop", "waitChunk", "dirTop", "waitDir", "sleepDir", "sleepEnd"}
          /\ conn[s] = "open" /\ (ci[s] > 1 \/ pc[s] \notin {"chunkTop", "waitChunk"}))
         => (emitted[s] # <<>> /\ emitted[s][1].type = "STEP_START")

\* The first STEP_START has gone out, the session is not paused, and a
\* PAUSE followed by another message is still waiting to be handled.
C29_Witness ==
  /\ pc["s1"] = "dirTop" /\ ci["s1"] = 1 /\ di["s1"] = 1
  /\ Len(emitted["s1"]) = 1 /\ emitted["s1"][1].type = "STEP_START"
  /\ ~paused["s1"]
  /\ inbox["s1"] = <<"PAUSE", "PAUSE">>

\* C30: whatever the number of requests for a subtopic, and however they
\* overlap, the lessons table holds at most one row of that subtopic.
C30_OneLessonPerSubtopic ==
  \A id1, id2 \in DOMAIN lessons :
    (lessons[id1].subtopic_id # Null /\ lessons[id1].subtopic_id = lessons[id2].subtopic_id)
      => id1 = id2

====
